---- MODULE Spec2Model ----
(***************************************************************************)
(* Model of etl/db_utilities.py: the SQLite bulk row loader with per-row   *)
(* fault isolation, the schema initializer, the query executor and the S3  *)
(* sync client.  The database is modelled as the committed contents of the *)
(* file (table) plus the open transaction of the call's connection         *)
(* (pendIdx, inTxn), following the transaction control of Python's sqlite3 *)
(* module: an INSERT implicitly opens a transaction, commit() makes the    *)
(* whole open transaction durable, and leaving a `with connection` block   *)
(* commits (or rolls back on an exception) without closing the connection. *)
(***************************************************************************)
EXTENDS Integers, Sequences, FiniteSets, TLC

\* ------------------------------------------------------------------ bounds
MaxBatch == 2

\* ------------------------------------------------------------- value sets
Ids == {"a", "b"}
Vals == {"1"}
NULL == "NULL"
\* a Python int outside the signed 64-bit range of an SQLite INTEGER
HUGE == "HUGE"

ColumnNames == <<"id", "val">>

GoodRows == {<<k, v>> : k \in Ids \cup {NULL}, v \in Vals}
\* a row of the wrong arity and a row holding an unconvertible value
BadRows == {<<"a">>, <<"a", HUGE>>}
Rows == GoodRows \cup BadRows

Batches == UNION {[1..n -> Rows] : n \in 0..MaxBatch}

\* committed contents a table with a unique, not-null id column can have
Tables == {t \in SUBSET (Ids \X Vals) :
             \A r1 \in t, r2 \in t : r1[1] = r2[1] => r1 = r2}

Queries == {"SELECT_ALL", "SELECT_BY_ID", "BAD_SQL"}
ParamChoices == {[given |-> FALSE, vals |-> <<>>],
                 [given |-> TRUE, vals |-> <<>>],
                 [given |-> TRUE, vals |-> <<"a">>],
                 [given |-> TRUE, vals |-> <<HUGE>>]}

\* os.environ.get: None when unset, else the string (possibly empty)
EnvValues == {"unset", "", "x"}
CredNames == <<"AWS_ACCESS_KEY_ID", "AWS_SECRET_ACCESS_KEY", "AWS_REGION">>

NoResult == [none |-> TRUE, rows |-> {}]

VARIABLES
  pc,            \* position of the running call, "idle" between calls
  lastOp,        \* the operation called last
  table,         \* committed rows of the database file
  tableExists,   \* the schema has been applied to the database file
  data,          \* insert_into_database: the batch
  idx,           \* insert_into_database: 1-based index of the current row
  rows_inserted,
  rows_failed,
  inTxn,         \* the call's connection has an open transaction
  pendIdx,       \* rows of the batch inserted in the open transaction
  connOpen,      \* the connection opened by the call is open
  connected,     \* sqlite3.connect succeeded in this call
  status,        \* how each row of the batch was counted
  ownCommit,     \* rows whose own commit() succeeded
  persisted,     \* rows of the batch this call made durable
  outerErr,      \* the outer sqlite3.Error handler ran
  ret,           \* insert_into_database: the returned pair
  result,        \* execute_select_query: the returned value
  selOutcome,    \* execute_select_query: "ok" or "error"
  raised,        \* exception that reached the caller, "none" otherwise
  log,           \* lines logged by the call
  io,            \* I/O steps attempted by the call
  creds,         \* credential values read by the call
  tableAtStart,  \* committed rows when the call started
  isRepeat       \* the call repeats the batch of the call before it

vars == <<pc, lastOp, table, tableExists, data, idx, rows_inserted,
          rows_failed, inTxn, pendIdx, connOpen, connected, status,
          ownCommit, persisted, outerErr, ret, result, selOutcome, raised,
          log, io, creds, tableAtStart, isRepeat>>

dbVars == <<table, tableExists>>
insVars == <<data, idx, rows_inserted, rows_failed, inTxn, pendIdx, status,
             ownCommit, persisted, outerErr, ret, isRepeat>>
selVars == <<result, selOutcome>>

\* ---------------------------------------------------------------- helpers
KeysOf(rows) == {r[1] : r \in rows}

RowsOf(batch, indices) == {batch[j] : j \in indices}

\* mutant: the INSERT does not enforce the unique constraint
ExecOutcome_NoUnique(row, exists, visible) ==
  IF ~exists THEN "OperationalError"
  ELSE IF Len(row) # Len(ColumnNames) THEN "ProgrammingError"
  ELSE IF \E j \in 1..Len(row) : row[j] = HUGE THEN "OverflowError"
  ELSE IF row[1] = NULL THEN "IntegrityError"
  ELSE "ok"

\* cursor.execute(sql_query, row): the statement is prepared, the values
\* are bound, then the INSERT runs against everything the connection sees.
ExecOutcome(row, exists, visible) ==
  IF ~exists THEN "OperationalError"
  ELSE IF Len(row) # Len(ColumnNames) THEN "ProgrammingError"
  ELSE IF \E j \in 1..Len(row) : row[j] = HUGE THEN "OverflowError"
  ELSE IF row[1] = NULL THEN "IntegrityError"
  ELSE IF row[1] \in KeysOf(visible) THEN "IntegrityError"
  ELSE "ok"

\* the implicit BEGIN is issued once the INSERT statement was prepared
BeginsTxn(exists) == exists

NextPc(i, batch) == IF i < Len(batch) THEN "ins_row" ELSE "ins_exit"

\* the interpreter may or may not finalize a connection nobody closed
Finalized == {TRUE, FALSE}

Init ==
  /\ pc = "idle"
  /\ lastOp = "none"
  /\ table = {}
  /\ tableExists = FALSE
  /\ data = <<>>
  /\ idx = 0
  /\ rows_inserted = 0
  /\ rows_failed = 0
  /\ inTxn = FALSE
  /\ pendIdx = {}
  /\ connOpen = FALSE
  /\ connected = FALSE
  /\ status = <<>>
  /\ ownCommit = {}
  /\ persisted = {}
  /\ outerErr = FALSE
  /\ ret = <<0, 0>>
  /\ result = NoResult
  /\ selOutcome = "none"
  /\ raised = "none"
  /\ log = <<>>
  /\ io = {}
  /\ creds = <<"unset", "unset", "unset">>
  /\ tableAtStart = {}
  /\ isRepeat = FALSE

\* the variables of insert_into_database before a call of it
NoInsert ==
  /\ data' = <<>>
  /\ idx' = 0
  /\ rows_inserted' = 0
  /\ rows_failed' = 0
  /\ inTxn' = FALSE
  /\ pendIdx' = {}
  /\ status' = <<>>
  /\ ownCommit' = {}
  /\ persisted' = {}
  /\ outerErr' = FALSE
  /\ ret' = <<0, 0>>
  /\ isRepeat' = FALSE

NoSelect ==
  /\ result' = NoResult
  /\ selOutcome' = "none"

NoCreds == creds' = <<"unset", "unset", "unset">>

\* state every call starts from
StartCall(op) ==
  /\ pc = "idle"
  /\ lastOp' = op
  /\ tableAtStart' = table

\* -------------------------------------------------- insert_into_database
\* mutant: the outer handler leaves the failed count as it is
OuterFailed_KeepFailed(inserted, failed, batch) == <<inserted, failed>>

\* line 101: the outer handler overwrites the failed count only
OuterFailed(inserted, failed, batch) == <<inserted, Len(batch)>>

\* lines 61-72 and 99-103: counters, statement text, sqlite3.connect
InsertBegin ==
  \E batch \in Batches, connectOk \in BOOLEAN :
    /\ StartCall("insert")
    /\ data' = batch
    /\ raised' = "none"
    /\ isRepeat' = (lastOp = "insert" /\ raised = "none" /\ batch = data)
    /\ rows_inserted' = 0
    /\ status' = [j \in 1..Len(batch) |-> "todo"]
    /\ ownCommit' = {}
    /\ persisted' = {}
    /\ pendIdx' = {}
    /\ inTxn' = FALSE
    /\ connected' = connectOk
    /\ connOpen' = connectOk
    /\ io' = {"connect"}
    /\ IF connectOk
         THEN /\ rows_failed' = 0
              /\ outerErr' = FALSE
              /\ log' = <<>>
              /\ idx' = IF Len(batch) > 0 THEN 1 ELSE 0
              /\ pc' = IF Len(batch) > 0 THEN "ins_row" ELSE "ins_exit"
              /\ ret' = <<0, 0>>
         ELSE /\ rows_failed' = OuterFailed(0, 0, batch)[2]
              /\ outerErr' = TRUE
              /\ log' = <<<<"ERROR", "Unexpected database error occurred">>>>
              /\ idx' = 0
              /\ pc' = "idle"
              /\ ret' = OuterFailed(0, 0, batch)
    /\ NoSelect
    /\ NoCreds
    /\ UNCHANGED dbVars

\* mutant: a failing row ends the loop instead of moving to the next row
RowFailed_Abort(kind) ==
  /\ rows_failed' = rows_failed + 1
  /\ status' = [status EXCEPT ![idx] = kind]
  /\ log' = Append(log, <<"ERROR", kind, idx>>)
  /\ idx' = idx
  /\ pc' = "ins_exit"

\* lines 81-92: both per-row handlers log the row and count it as failed
RowFailed(kind) ==
  /\ rows_failed' = rows_failed + 1
  /\ status' = [status EXCEPT ![idx] = kind]
  /\ log' = Append(log, <<"ERROR", kind, idx>>)
  /\ idx' = IF idx < Len(data) THEN idx + 1 ELSE idx
  /\ pc' = NextPc(idx, data)

\* line 75: the loop moves on to the next row, or leaves the with block
Advance ==
  /\ idx' = IF idx < Len(data) THEN idx + 1 ELSE idx
  /\ pc' = NextPc(idx, data)

\* the runtime drops the connection object when the call is left; nothing
\* in the call closes it
LeaveCall(opened) ==
  \E f \in Finalized : connOpen' = (opened /\ ~f)

\* connection.commit(): the whole open transaction becomes durable
CommitEffect ==
  /\ table' = table \cup RowsOf(data, pendIdx)
  /\ persisted' = persisted \cup pendIdx
  /\ pendIdx' = {}
  /\ inTxn' = FALSE

\* connection.rollback(): the open transaction is discarded
RollbackEffect ==
  /\ table' = table
  /\ persisted' = persisted
  /\ pendIdx' = {}
  /\ inTxn' = FALSE

\* line 78: db_cursor.execute(sql_query, row)
InsertExecute ==
  /\ pc = "ins_row"
  /\ LET out == ExecOutcome(data[idx], tableExists,
                            table \cup RowsOf(data, pendIdx))
     IN
       \/ /\ out = "ok"
          /\ pendIdx' = pendIdx \cup {idx}
          /\ inTxn' = TRUE
          /\ pc' = "ins_commit"
          /\ UNCHANGED <<table, persisted, rows_failed, status, log, idx,
                         connOpen, raised>>
       \/ /\ out = "IntegrityError"
          /\ RowFailed("integrity")
          /\ inTxn' = TRUE
          /\ UNCHANGED <<table, persisted, pendIdx, connOpen, raised>>
       \/ /\ out \in {"ProgrammingError", "OperationalError"}
          /\ RowFailed("dberror")
          /\ inTxn' = (inTxn \/ BeginsTxn(tableExists))
          /\ UNCHANGED <<table, persisted, pendIdx, connOpen, raised>>
       \/ /\ out = "OverflowError"
          \* not an sqlite3.Error: no handler of the function catches it;
          \* the with block rolls back and the error reaches the caller
          /\ RollbackEffect
          /\ LeaveCall(connOpen)
          /\ raised' = "OverflowError"
          /\ status' = [status EXCEPT ![idx] = "raised"]
          /\ pc' = "idle"
          /\ UNCHANGED <<rows_failed, log, idx>>
  /\ UNCHANGED <<lastOp, tableExists, data, rows_inserted, connected,
                 ownCommit, outerErr, ret, selVars, io, creds, tableAtStart,
                 isRepeat>>

\* line 79: db_connection.commit()
InsertCommit ==
  /\ pc = "ins_commit"
  /\ \E commitOk \in BOOLEAN :
       IF commitOk
         THEN /\ CommitEffect
              /\ ownCommit' = ownCommit \cup {idx}
              /\ pc' = "ins_count"
              /\ UNCHANGED <<rows_failed, status, log, idx>>
         ELSE \* sqlite3.OperationalError, caught at line 87; the handler
              \* leaves the transaction and the row pending in it open
              /\ RowFailed("dberror")
              /\ UNCHANGED <<table, persisted, pendIdx, inTxn, ownCommit>>
  /\ UNCHANGED <<lastOp, tableExists, data, rows_inserted, connOpen,
                 connected, outerErr, ret, selVars, raised, io, creds,
                 tableAtStart, isRepeat>>

\* line 80: rows_inserted += 1
InsertCount ==
  /\ pc = "ins_count"
  /\ rows_inserted' = rows_inserted + 1
  /\ status' = [status EXCEPT ![idx] = "inserted"]
  /\ Advance
  /\ UNCHANGED <<lastOp, dbVars, data, rows_failed, inTxn, pendIdx, connOpen,
                 connected, ownCommit, persisted, outerErr, ret, selVars,
                 raised, log, io, creds, tableAtStart, isRepeat>>

\* lines 71 (leaving the with block), 94-103
InsertExit ==
  /\ pc = "ins_exit"
  /\ \E commitOk \in BOOLEAN :
       \/ /\ ~inTxn \/ commitOk
          \* Connection.__exit__ commits when a transaction is open
          /\ CommitEffect
          /\ outerErr' = FALSE
          /\ log' = Append(log, <<"INFO", "rows_inserted, rows_failed">>)
          /\ ret' = <<rows_inserted, rows_failed>>
          /\ rows_failed' = rows_failed
       \/ /\ inTxn /\ ~commitOk
          \* the commit raises sqlite3.OperationalError; __exit__ rolls
          \* back and the outer handler at line 99 catches the error
          /\ RollbackEffect
          /\ outerErr' = TRUE
          /\ log' = Append(log, <<"ERROR", "Unexpected database error occurred">>)
          /\ ret' = OuterFailed(rows_inserted, rows_failed, data)
          /\ rows_failed' = OuterFailed(rows_inserted, rows_failed, data)[2]
  /\ LeaveCall(connOpen)
  /\ pc' = "idle"
  /\ UNCHANGED <<lastOp, tableExists, data, idx, rows_inserted,
                 connected, status, ownCommit, selVars, raised, io, creds,
                 tableAtStart, isRepeat>>

\* the process dies inside insert_into_database: the open transaction is
\* never committed, the committed rows stay in the file
Crash ==
  /\ pc \in {"ins_row", "ins_commit", "ins_count", "ins_exit"}
  /\ pc' = "crashed"
  /\ pendIdx' = {}
  /\ inTxn' = FALSE
  /\ connOpen' = FALSE
  /\ UNCHANGED <<lastOp, dbVars, data, idx, rows_inserted, rows_failed,
                 connected, status, ownCommit, persisted, outerErr, ret,
                 selVars, raised, log, io, creds, tableAtStart, isRepeat>>

\* a new process starts on the database file the crashed one left
Restart ==
  /\ pc = "crashed"
  /\ pc' = "idle"
  /\ lastOp' = "restart"
  /\ NoInsert
  /\ NoSelect
  /\ NoCreds
  /\ connected' = FALSE
  /\ raised' = "none"
  /\ log' = <<>>
  /\ io' = {}
  /\ tableAtStart' = table
  /\ UNCHANGED <<dbVars, connOpen>>

\* ------------------------------------------------------- create_database
\* lines 19-38; makedirs runs before the try block
CreateDatabase ==
  \E dirsOk \in BOOLEAN, schemaOk \in BOOLEAN, connectOk \in BOOLEAN,
     scriptOk \in BOOLEAN :
    /\ StartCall("create")
    /\ pc' = "idle"
    /\ \/ /\ ~dirsOk
          /\ raised' = "OSError"
          /\ io' = {"makedirs"}
          /\ log' = <<>>
          /\ connected' = FALSE
          /\ connOpen' = FALSE
          /\ UNCHANGED <<table, tableExists>>
       \/ /\ dirsOk /\ ~schemaOk
          /\ raised' = "none"
          /\ io' = {"makedirs", "open_schema"}
          /\ log' = <<<<"ERROR", "Error creating the database">>>>
          /\ connected' = FALSE
          /\ connOpen' = FALSE
          /\ UNCHANGED <<table, tableExists>>
       \/ /\ dirsOk /\ schemaOk /\ ~connectOk
          /\ raised' = "none"
          /\ io' = {"makedirs", "open_schema", "connect"}
          /\ log' = <<<<"ERROR", "Error creating the database">>>>
          /\ connected' = FALSE
          /\ connOpen' = FALSE
          /\ UNCHANGED <<table, tableExists>>
       \/ /\ dirsOk /\ schemaOk /\ connectOk /\ ~scriptOk
          /\ raised' = "none"
          \* executescript raises; close() at line 34 is skipped
          /\ io' = {"makedirs", "open_schema", "connect", "executescript"}
          /\ log' = <<<<"ERROR", "Error creating the database">>>>
          /\ connected' = TRUE
          /\ LeaveCall(TRUE)
          /\ UNCHANGED <<table, tableExists>>
       \/ /\ dirsOk /\ schemaOk /\ connectOk /\ scriptOk
          /\ raised' = "none"
          /\ io' = {"makedirs", "open_schema", "connect", "executescript",
                    "commit", "close"}
          /\ log' = <<<<"INFO", "Database created">>>>
          /\ connected' = TRUE
          /\ connOpen' = FALSE
          /\ tableExists' = TRUE
          /\ table' = IF tableExists THEN table ELSE {}
    /\ NoInsert
    /\ NoSelect
    /\ NoCreds

\* -------------------------------------------------- execute_select_query
\* line 125: None and the empty tuple both select the call without params
Truthy(params) == params.given /\ Len(params.vals) > 0

Placeholders(query) == IF query = "SELECT_BY_ID" THEN 1 ELSE 0

\* lines 125-128: db_cursor.execute
SelectOutcome(query, params, exists) ==
  LET supplied == IF Truthy(params) THEN Len(params.vals) ELSE 0
  IN IF query = "BAD_SQL" \/ ~exists THEN "OperationalError"
     ELSE IF supplied # Placeholders(query) THEN "ProgrammingError"
     ELSE IF \E j \in 1..supplied : params.vals[j] = HUGE THEN "OverflowError"
     ELSE "ok"

Matching(query, params, rows) ==
  IF query = "SELECT_BY_ID" THEN {r \in rows : r[1] = params.vals[1]}
  ELSE rows

\* mutant: an empty result set is turned into the absent value
Fetchall_Collapse(rows) ==
  IF rows = {} THEN NoResult ELSE [none |-> FALSE, rows |-> rows]

\* line 130: fetchall() gives the list of the matching rows, empty or not
Fetchall(rows) == [none |-> FALSE, rows |-> rows]

\* lines 119-138
ExecuteSelectQuery ==
  \E query \in Queries, params \in ParamChoices, connectOk \in BOOLEAN :
    /\ StartCall("select")
    /\ pc' = "idle"
    /\ connected' = connectOk
    /\ io' = {"connect"}
    /\ LET out == IF connectOk THEN SelectOutcome(query, params, tableExists)
                  ELSE "OperationalError"
       IN
         \/ /\ out = "ok"
            /\ result' = Fetchall(Matching(query, params, table))
            /\ selOutcome' = "ok"
            /\ log' = <<>>
            /\ raised' = "none"
         \/ /\ out \in {"OperationalError", "ProgrammingError"}
            /\ result' = NoResult
            /\ selOutcome' = "error"
            /\ log' = <<<<"ERROR", "Query failed, database error">>>>
            /\ raised' = "none"
         \/ /\ out = "OverflowError"
            \* not an sqlite3.Error: it reaches the caller
            /\ raised' = "OverflowError"
            /\ result' = NoResult
            /\ selOutcome' = "raised"
            /\ log' = <<>>
    /\ LeaveCall(connectOk)
    /\ NoInsert
    /\ NoCreds
    /\ UNCHANGED dbVars

\* ------------------------------------------------------------ S3 client
Set(v) == v \notin {"unset", ""}

\* mutant: one credential value is enough
HaveCredentials_Any(env) == Set(env[1]) \/ Set(env[2]) \/ Set(env[3])

\* line 150
HaveCredentials(env) == Set(env[1]) /\ Set(env[2]) /\ Set(env[3])

RECURSIVE MissingLines(_, _)
\* lines 158-163: one line for each missing value, in the order tested
MissingLines(env, j) ==
  IF j > Len(env) THEN <<>>
  ELSE (IF Set(env[j]) THEN <<>>
        ELSE <<<<"ERROR", "Missing", CredNames[j]>>>>)
       \o MissingLines(env, j + 1)

\* lines 157-165
SkipLog(env) ==
  MissingLines(env, 1)
    \o <<<<"ERROR", "Unable to create S3 client. Skipping operation.">>>>

\* lines 170-191
DownloadDatabaseFromS3 ==
  \E env \in [1..3 -> EnvValues] :
    /\ StartCall("download")
    /\ pc' = "idle"
    /\ creds' = env
    /\ \/ /\ ~HaveCredentials(env)
          /\ raised' = "none"
          /\ log' = SkipLog(env)
          /\ io' = {}
          /\ UNCHANGED <<table, tableExists>>
       \/ /\ HaveCredentials(env)
          \* boto3.Session / client("s3") raise outside any try block
          /\ raised' = "BotoError"
          /\ log' = <<>>
          /\ io' = {"s3_client"}
          /\ UNCHANGED <<table, tableExists>>
       \/ /\ HaveCredentials(env)
          \* makedirs at line 177 runs before the try block
          /\ raised' = "OSError"
          /\ log' = <<>>
          /\ io' = {"s3_client", "makedirs"}
          /\ UNCHANGED <<table, tableExists>>
       \/ /\ HaveCredentials(env)
          /\ raised' = "none"
          /\ io' = {"s3_client", "makedirs", "download_file"}
          /\ \/ \E object \in Tables :
                  \* the local file is overwritten by the bucket's object
                  /\ table' = object
                  /\ tableExists' = TRUE
                  /\ log' = <<<<"INFO", "Successfully downloaded">>>>
             \/ /\ log' = <<<<"ERROR", "Failed to download database from S3">>>>
                /\ UNCHANGED <<table, tableExists>>
    /\ NoInsert
    /\ NoSelect
    /\ connOpen' = FALSE
    /\ connected' = FALSE

\* lines 194-214
UploadDatabaseToS3 ==
  \E env \in [1..3 -> EnvValues] :
    /\ StartCall("upload")
    /\ pc' = "idle"
    /\ creds' = env
    /\ \/ /\ ~HaveCredentials(env)
          /\ raised' = "none"
          /\ log' = SkipLog(env)
          /\ io' = {}
       \/ /\ HaveCredentials(env)
          /\ raised' = "BotoError"
          /\ log' = <<>>
          /\ io' = {"s3_client"}
       \/ /\ HaveCredentials(env)
          /\ raised' = "none"
          /\ io' = {"s3_client", "upload_file"}
          /\ \E transferOk \in BOOLEAN :
               log' = IF transferOk
                        THEN <<<<"INFO", "Successfully uploaded">>>>
                        ELSE <<<<"ERROR", "Failed to upload database to S3">>>>
    /\ NoInsert
    /\ NoSelect
    /\ connOpen' = FALSE
    /\ connected' = FALSE
    /\ UNCHANGED dbVars

\* ----------------------------------------------------------- the program
Next ==
  \/ CreateDatabase
  \/ InsertBegin
  \/ InsertExecute
  \/ InsertCommit
  \/ InsertCount
  \/ InsertExit
  \/ Crash
  \/ Restart
  \/ ExecuteSelectQuery
  \/ DownloadDatabaseFromS3
  \/ UploadDatabaseToS3

Spec == Init /\ [][Next]_vars

\* ------------------------------------------------------------ properties
\* the call of op has returned to its caller without raising
Returned(op) == pc = "idle" /\ lastOp = op /\ raised = "none"

Counted(kind) == {j \in 1..Len(data) : status[j] = kind}

RECURSIVE ViolatingFrom(_, _, _)
\* the rows of batch[j..] that violate the unique or the not-null constraint
\* of the id column, each judged against the keys present when it is tried
ViolatingFrom(batch, j, keys) ==
  IF j > Len(batch) THEN {}
  ELSE IF batch[j][1] = NULL \/ batch[j][1] \in keys
         THEN {j} \cup ViolatingFrom(batch, j + 1, keys)
         ELSE ViolatingFrom(batch, j + 1, keys \cup {batch[j][1]})

Violating == ViolatingFrom(data, 1, KeysOf(tableAtStart))

\* the call met no database error other than integrity violations
NoOtherError == connected /\ ~outerErr /\ Counted("dberror") = {}

\* C1 (as amended): when the connection opens and no row meets a database
\* error other than an integrity violation (at execute, at its commit, or at
\* the commit on leaving the connection context), a batch with exactly k
\* violating rows returns (len(rows) - k, k), the rows counted as failed are
\* exactly the violating rows, and every other row is inserted.
C1_PartialFailureCounts ==
  (Returned("insert") /\ NoOtherError) =>
    /\ ret = <<Len(data) - Cardinality(Violating), Cardinality(Violating)>>
    /\ Counted("integrity") = Violating
    /\ Counted("inserted") = (1..Len(data)) \ Violating
    /\ persisted = (1..Len(data)) \ Violating
    /\ table = tableAtStart \cup RowsOf(data, (1..Len(data)) \ Violating)

\* C1 witness: a violating row is followed by a row that was inserted
C1_Witness ==
  /\ Returned("insert") /\ NoOtherError
  /\ \E j \in Violating, k \in Counted("inserted") : j < k
  /\ ret[1] > 0 /\ ret[2] > 0

\* C1 as stated: whenever the connection opens, a batch with exactly k
\* violating rows returns (len(rows) - k, k)
C1_Original ==
  (Returned("insert") /\ connected) =>
    ret = <<Len(data) - Cardinality(Violating), Cardinality(Violating)>>

\* C2: every return of insert_into_database satisfies
\* rows_inserted + rows_failed = len(data)
C2_CountsSumToBatch ==
  Returned("insert") => ret[1] + ret[2] = Len(data)

\* C3: when establishing the connection fails the call returns
\* (0, len(rows)), attempts no row and leaves the database unchanged
C3_ConnectFailure ==
  (pc = "idle" /\ lastOp = "insert" /\ ~connected) =>
    /\ raised = "none"
    /\ ret = <<0, Len(data)>>
    /\ \A j \in 1..Len(data) : status[j] = "todo"
    /\ persisted = {}
    /\ table = tableAtStart
    /\ Len(log) = 1

\* C3 witness: a non-empty batch met a connection failure
C3_Witness ==
  /\ pc = "idle" /\ lastOp = "insert" /\ ~connected
  /\ Len(data) > 0
  /\ ret[2] = Len(data)

\* C4: after a crash inside insert_into_database the rows of the batch that
\* are durable are exactly the rows of the processed prefix whose insert
\* (execute and its own commit) succeeded
C4_CrashLeavesCommittedPrefix ==
  pc = "crashed" =>
    /\ persisted = ownCommit
    /\ persisted \subseteq 1..idx
    /\ Counted("inserted") \subseteq persisted
    /\ table = tableAtStart \cup RowsOf(data, ownCommit)

\* every row of the batch has a null key or a key the table held when the
\* call started
Covered ==
  \A j \in 1..Len(data) :
    data[j][1] = NULL \/ data[j][1] \in KeysOf(tableAtStart)

\* C5 (as amended): a call that repeats the batch of the call before it
\* returns (0, len(rows)) and leaves the table as it found it, provided every
\* row's key is null or in the table when the first call has returned
C5_RepeatCovered ==
  (Returned("insert") /\ isRepeat /\ Covered) =>
    /\ ret = <<0, Len(data)>>
    /\ table = tableAtStart
    /\ persisted = {}

\* C5 witness: a repeated batch with a key the first call left in the table
C5_Witness ==
  /\ Returned("insert") /\ isRepeat /\ Covered /\ connected
  /\ \E j \in 1..Len(data) : data[j][1] \in KeysOf(tableAtStart)
  /\ ret = <<0, Len(data)>>

\* C5 as stated: the second of two calls with the same batch returns
\* (0, len(rows)) and leaves the table as the first call left it
C5_Original ==
  (Returned("insert") /\ isRepeat) =>
    /\ ret = <<0, Len(data)>>
    /\ table = tableAtStart

\* C6: no operation lets a failure reach its caller as a raised error
C6_NoErrorReachesCaller ==
  raised = "none"

\* C7 (as amended): execute_select_query keeps the two apart: a SELECT that
\* succeeds against an empty table returns an empty list, a failing query
\* returns None
C7_EmptyIsNotNone ==
  (pc = "idle" /\ lastOp = "select") =>
    /\ (selOutcome = "ok" /\ table = {}) => result = [none |-> FALSE, rows |-> {}]
    /\ selOutcome = "ok" => ~result.none
    /\ selOutcome = "error" => (result = NoResult /\ Len(log) = 1)

\* C7 witness: a SELECT succeeded against the created, empty table
C7_Witness ==
  /\ Returned("select") /\ selOutcome = "ok"
  /\ tableExists /\ table = {}
  /\ result.rows = {}

\* C7 as stated: a SELECT that succeeds against an empty table returns the
\* absent signal a failing query returns
C7_Original ==
  (Returned("select") /\ selOutcome = "ok" /\ table = {}) => result = NoResult

Missing == {j \in 1..3 : creds[j] \in {"unset", ""}}

\* C8: with a credential value unset or empty, download and upload attempt
\* no transfer and no other I/O, log one error line per missing value and a
\* skip line, and return normally; a transfer needs all three values
C8_SyncGating ==
  (pc = "idle" /\ lastOp \in {"download", "upload"}) =>
    /\ Missing # {} =>
         /\ io = {}
         /\ raised = "none"
         /\ table = tableAtStart
         /\ Len(log) = Cardinality(Missing) + 1
         /\ \A j \in Missing : \E k \in 1..(Len(log) - 1) :
              log[k] = <<"ERROR", "Missing", CredNames[j]>>
         /\ log[Len(log)] =
              <<"ERROR", "Unable to create S3 client. Skipping operation.">>
    /\ (io \cap {"download_file", "upload_file", "s3_client", "makedirs"} # {})
         => Missing = {}

\* C8 witness: a sync call was skipped with two of the three values missing
C8_Witness ==
  /\ pc = "idle" /\ lastOp \in {"download", "upload"}
  /\ Cardinality(Missing) = 2
  /\ Len(log) = 3
  /\ io = {}

\* C9: after create_database, insert_into_database or execute_select_query
\* returns, the connection the call opened is closed
C9_ConnectionClosed ==
  (pc = "idle" /\ lastOp \in {"create", "insert", "select"}) => ~connOpen

\* C10: after insert_into_database returns, every row of the batch the call
\* made durable was counted in rows_inserted
C10_FailedRowNotPersisted ==
  (pc = "idle" /\ lastOp = "insert") =>
    \A j \in persisted : status[j] = "inserted"

====
